---- MODULE Spec2Model ----
(***************************************************************************)
(* A model of the AI coding tutor: the per-student progress ledger         *)
(* (StudentProgress), the problem catalog and the recommendation and       *)
(* submission operations of AICodingTutor.                                 *)
(***************************************************************************)
EXTENDS Integers, Sequences, FiniteSets, TLC

VARIABLES
    problems,         \* AICodingTutor.problems: the catalog, in insertion order
    hints,            \* CodingProblem.hints of each problem of the catalog
    students,         \* AICodingTutor.students: student_id -> StudentProgress
    session_history,  \* AICodingTutor.session_history: the log of submissions
    ret,              \* the last call: what it returned or raised
    attempts,         \* the number of update_progress calls made so far
    observed,         \* history: per student, the successes in a row, and
                      \* the largest current_streak seen
    threads           \* the submit_solution calls that threads run at the
                      \* same time: where each is, and its local values

vars == <<problems, hints, students, session_history, ret, attempts,
          observed, threads>>

----------------------------------------------------------------------------
(* Bounds of the model *)

\* At most MaxAttempts calls of update_progress are made, directly or by
\* submit_solution
MaxAttempts == 3
\* submit_solution is not called once session_history holds MaxSessions entries
MaxSessions == 1
\* add_hint is not called on a problem once MaxHints hints were added to the
\* catalog's problems after _initialize_problems
MaxHints == 2
\* Hint levels and struggle levels go up to MaxLevel
MaxLevel == 3

----------------------------------------------------------------------------
(* The enumerations *)

BEGINNER == "beginner"
INTERMEDIATE == "intermediate"
ADVANCED == "advanced"
DifficultyLevel == {BEGINNER, INTERMEDIATE, ADVANCED}

ALGORITHMS == "algorithms"
DATA_STRUCTURES == "data_structures"
WEB_DEVELOPMENT == "web_development"
MACHINE_LEARNING == "machine_learning"
ProblemCategory == {ALGORITHMS, DATA_STRUCTURES, WEB_DEVELOPMENT, MACHINE_LEARNING}

\* The absent optional argument of get_recommended_problem
None == "None"

----------------------------------------------------------------------------
(* Problems *)

\* CodingProblem(...): the fields the ledger and the recommendation read;
\* test_cases is the number of test cases
CodingProblem(problem_id, category, difficulty, test_cases) ==
    [problem_id |-> problem_id, category |-> category,
     difficulty |-> difficulty, test_cases |-> test_cases]

fib_problem == CodingProblem("fib_001", ALGORITHMS, BEGINNER, 4)
palindrome_problem == CodingProblem("pal_001", ALGORITHMS, BEGINNER, 4)

\* _initialize_problems: the catalog a new tutor holds, in insertion order
InitializeProblems == <<fib_problem, palindrome_problem>>

\* Problems registered in tutor.problems after the sample ones
MoreProblems ==
    << CodingProblem("ds_001", DATA_STRUCTURES, BEGINNER, 4),
       CodingProblem("alg_002", ALGORITHMS, INTERMEDIATE, 4) >>

\* Two more problems a caller registers in tutor.problems: one with five test
\* cases, one with none
SubmitProblems ==
    << CodingProblem("sum_001", DATA_STRUCTURES, BEGINNER, 5),
       CodingProblem("todo_001", WEB_DEVELOPMENT, BEGINNER, 0) >>

\* A problem with ten test cases that a caller registers in tutor.problems
ten_tests_problem == CodingProblem("ml_001", MACHINE_LEARNING, BEGINNER, 10)

\* The problems update_progress is called with: those of the catalogs, and
\* one that a caller constructs itself
ProblemPool ==
    {fib_problem, palindrome_problem, MoreProblems[1], MoreProblems[2],
     CodingProblem("alg_003", ALGORITHMS, ADVANCED, 4)}

\* The problem ids submit_solution is called with (some are not in the catalog)
ProblemIds == {p.problem_id : p \in ProblemPool}

\* The student ids the operations are called with
StudentIds == {"s1", "s2"}

\* The code-quality scores update_progress is called with: at the promotion
\* threshold (80), just above it, and well above it
Scores == {80, 81, 90}

Range(f) == {f[i] : i \in DOMAIN f}

----------------------------------------------------------------------------
(* CodingProblem: the hints *)

\* The hints _initialize_problems adds to the two sample problems, each with
\* the default level 1
InitializeHints ==
    [id \in {"fib_001", "pal_001"} |->
       IF id = "fib_001"
       THEN << [level |-> 1, hint |-> "The Fibonacci sequence starts with 0 and 1"],
               [level |-> 1, hint |-> "Each subsequent number is the sum of the previous two"],
               [level |-> 1, hint |-> "Consider using recursion or iteration"] >>
       ELSE << [level |-> 1, hint |-> "A palindrome reads the same forwards and backwards"],
               [level |-> 1, hint |-> "Consider removing spaces and converting to lowercase"],
               [level |-> 1, hint |-> "You can reverse the string and compare"] >>]

\* The hint texts add_hint is called with after that: a new text, and a text
\* that fib_001 already has at level 1
HintTexts == {"Use two variables", "Consider using recursion or iteration"}

\* The levels add_hint is called with
HintLevels == 1..MaxLevel

\* The struggle levels get_hint is called with (0: below every hint)
StruggleLevels == 0..MaxLevel

\* CodingProblem.add_hint: self.hints after the call
add_hint(self_hints, hint, level) ==
    Append(self_hints, [level |-> level, hint |-> hint])

\* The list comprehension of get_hint with the comparison the other way round
available_hints_at_least(self_hints, current_level) ==
    {i \in 1..Len(self_hints) : self_hints[i].level >= current_level}

\* The list comprehension of get_hint: the positions in self.hints of the
\* hints kept
available_hints(self_hints, current_level) ==
    {i \in 1..Len(self_hints) : self_hints[i].level <= current_level}

\* CodingProblem.get_hint: what the call may return (random.choice picks any
\* available hint), with the position of the hint chosen; position 0 and None
\* when no hint is available
get_hint(self_hints, current_level) ==
    IF available_hints(self_hints, current_level) # {}
    THEN {[chosen |-> i, hint |-> self_hints[i].hint] :
             i \in available_hints(self_hints, current_level)}
    ELSE {[chosen |-> 0, hint |-> None]}

----------------------------------------------------------------------------
(* StudentProgress *)

\* StudentProgress.__init__ (performance_metrics is never read or written
\* again and is left out)
StudentProgress(student_id) ==
    [student_id |-> student_id,
     completed_problems |-> {},
     current_streak |-> 0,
     longest_streak |-> 0,
     skill_levels |-> [category \in ProblemCategory |-> BEGINNER]]

Max(a, b) == IF a >= b THEN a ELSE b

\* _promote_skill_level with the steps in the wrong order: the second test
\* sees the level the first one has just set, so BEGINNER goes to ADVANCED
promote_skill_level_skip(self, category) ==
    LET current == self.skill_levels[category] IN
    IF current = BEGINNER \/ current = INTERMEDIATE
    THEN [self EXCEPT !.skill_levels[category] = ADVANCED]
    ELSE self

\* _promote_skill_level promoting every category, not the one given
promote_skill_level_all(self, category) ==
    [self EXCEPT !.skill_levels =
        [c \in ProblemCategory |->
           IF self.skill_levels[c] = BEGINNER THEN INTERMEDIATE
           ELSE ADVANCED]]

\* StudentProgress._promote_skill_level
promote_skill_level(self, category) ==
    LET current == self.skill_levels[category] IN
    IF current = BEGINNER
    THEN [self EXCEPT !.skill_levels[category] = INTERMEDIATE]
    ELSE IF current = INTERMEDIATE
    THEN [self EXCEPT !.skill_levels[category] = ADVANCED]
    ELSE self

\* update_progress without the update of longest_streak
update_progress_no_longest(self, problem, success, code_quality_score) ==
    IF success
    THEN LET s1 == [self EXCEPT
                      !.completed_problems = @ \cup {problem.problem_id},
                      !.current_streak = @ + 1]
         IN IF code_quality_score > 80
               /\ problem.difficulty = s1.skill_levels[problem.category]
            THEN promote_skill_level(s1, problem.category)
            ELSE s1
    ELSE [self EXCEPT !.current_streak = 0]

\* update_progress promoting from a score of 80 on
update_progress_ge80(self, problem, success, code_quality_score) ==
    IF success
    THEN LET s1 == [self EXCEPT
                      !.completed_problems = @ \cup {problem.problem_id},
                      !.current_streak = @ + 1]
             s2 == [s1 EXCEPT
                      !.longest_streak = Max(@, s1.current_streak)]
         IN IF code_quality_score >= 80
               /\ problem.difficulty = s2.skill_levels[problem.category]
            THEN promote_skill_level(s2, problem.category)
            ELSE s2
    ELSE [self EXCEPT !.current_streak = 0]

\* update_progress with its else under the inner if: the streak is reset
\* by a success that does not promote, and a failure does nothing
update_progress_else_inner(self, problem, success, code_quality_score) ==
    IF success
    THEN LET s1 == [self EXCEPT
                      !.completed_problems = @ \cup {problem.problem_id},
                      !.current_streak = @ + 1]
             s2 == [s1 EXCEPT
                      !.longest_streak = Max(@, s1.current_streak)]
         IN IF code_quality_score > 80
               /\ problem.difficulty = s2.skill_levels[problem.category]
            THEN promote_skill_level(s2, problem.category)
            ELSE [s2 EXCEPT !.current_streak = 0]
    ELSE self

\* update_progress setting current_streak to 1 where it adds 1
update_progress_streak_one(self, problem, success, code_quality_score) ==
    IF success
    THEN LET s1 == [self EXCEPT
                      !.completed_problems = @ \cup {problem.problem_id},
                      !.current_streak = 1]
             s2 == [s1 EXCEPT
                      !.longest_streak = Max(@, s1.current_streak)]
         IN IF code_quality_score > 80
               /\ problem.difficulty = s2.skill_levels[problem.category]
            THEN promote_skill_level(s2, problem.category)
            ELSE s2
    ELSE [self EXCEPT !.current_streak = 0]

\* StudentProgress.update_progress: the ledger after the attempt
update_progress(self, problem, success, code_quality_score) ==
    IF success
    THEN LET s1 == [self EXCEPT
                      !.completed_problems = @ \cup {problem.problem_id},
                      !.current_streak = @ + 1]
             s2 == [s1 EXCEPT
                      !.longest_streak = Max(@, s1.current_streak)]
         IN IF code_quality_score > 80
               /\ problem.difficulty = s2.skill_levels[problem.category]
            THEN promote_skill_level(s2, problem.category)
            ELSE s2
    ELSE [self EXCEPT !.current_streak = 0]

----------------------------------------------------------------------------
(* CodeAnalysis *)

\* CodeAnalysis._calculate_code_score: analyze_code_quality calls it, and the
\* class does not define it; the analyzer is a scorer that returns a score
\* of 0..100, of which the model draws the thresholds of the promotion (80)
\* and of the best encouragement (85), and the scores just above them
calculate_code_score == {80, 81, 85, 86}

\* CodeAnalysis.analyze_code_quality: the analyses a submission may get
analyze_code_quality == {[score |-> q] : q \in calculate_code_score}

----------------------------------------------------------------------------
(* AICodingTutor *)

NoReturn == [kind |-> "none"]
IndexError == [kind |-> "IndexError"]

\* self.problems[problem_id]
ProblemById(problem_id) ==
    CHOOSE p \in Range(problems) : p.problem_id = problem_id

CatalogIds == {p.problem_id : p \in Range(problems)}

\* register_student without its test: a new StudentProgress every time
register_student_overwrite(self_students, student_id) ==
    [s \in DOMAIN self_students \cup {student_id} |->
       IF s = student_id THEN StudentProgress(student_id)
       ELSE self_students[s]]

\* AICodingTutor.register_student: self.students after the call
register_student(self_students, student_id) ==
    IF student_id \notin DOMAIN self_students
    THEN [s \in DOMAIN self_students \cup {student_id} |->
            IF s = student_id THEN StudentProgress(student_id)
            ELSE self_students[s]]
    ELSE self_students

\* The list comprehensions without the test on completed_problems
suitable_problems_keep_completed(student, category) ==
    LET target_difficulty == student.skill_levels[category]
        Exact(p) == /\ p.category = category
                    /\ p.difficulty = target_difficulty
        Relaxed(p) == p.difficulty = target_difficulty
    IN IF SelectSeq(problems, Exact) = <<>>
       THEN SelectSeq(problems, Relaxed)
       ELSE SelectSeq(problems, Exact)

\* The second list comprehension without the test on the difficulty
suitable_problems_any_difficulty(student, category) ==
    LET target_difficulty == student.skill_levels[category]
        Exact(p) == /\ p.category = category
                    /\ p.difficulty = target_difficulty
                    /\ p.problem_id \notin student.completed_problems
        Relaxed(p) == p.problem_id \notin student.completed_problems
    IN IF SelectSeq(problems, Exact) = <<>>
       THEN SelectSeq(problems, Relaxed)
       ELSE SelectSeq(problems, Exact)

\* The first list comprehension without the test on the category
suitable_problems_any_category(student, category) ==
    LET target_difficulty == student.skill_levels[category]
        Relaxed(p) == /\ p.difficulty = target_difficulty
                      /\ p.problem_id \notin student.completed_problems
    IN SelectSeq(problems, Relaxed)

\* The two list comprehensions of get_recommended_problem: the candidates,
\* in catalog order
suitable_problems(student, category) ==
    LET target_difficulty == student.skill_levels[category]
        Exact(p) == /\ p.category = category
                    /\ p.difficulty = target_difficulty
                    /\ p.problem_id \notin student.completed_problems
        Relaxed(p) == /\ p.difficulty = target_difficulty
                      /\ p.problem_id \notin student.completed_problems
    IN IF SelectSeq(problems, Exact) = <<>>
       THEN SelectSeq(problems, Relaxed)
       ELSE SelectSeq(problems, Exact)

\* get_recommended_problem without the last resort: random.choice of an
\* empty list raises IndexError
get_recommended_problem_no_last_resort(student, category) ==
    IF suitable_problems(student, category) # <<>>
    THEN Range(suitable_problems(student, category))
    ELSE {IndexError}

\* get_recommended_problem with the last problem of the catalog as the last
\* resort: list(self.problems.values())[-1]
get_recommended_problem_last(student, category) ==
    IF suitable_problems(student, category) # <<>>
    THEN Range(suitable_problems(student, category))
    ELSE IF problems # <<>> THEN {problems[Len(problems)]} ELSE {IndexError}

\* AICodingTutor.get_recommended_problem, the category chosen: what the call
\* may return (random.choice picks any candidate), IndexError when it raises
get_recommended_problem(student, category) ==
    IF suitable_problems(student, category) # <<>>
    THEN Range(suitable_problems(student, category))
    ELSE IF problems # <<>> THEN {problems[1]} ELSE {IndexError}

\* The recommendation of submit_solution made for the ledger as it was before
\* update_progress
next_recommendation_before(student_before, student, category) ==
    get_recommended_problem(student_before, category)

\* next_recommendation of submit_solution (line 265): the student is looked up
\* again after update_progress has changed the ledger, and the category is
\* the one of the problem attempted
next_recommendation(student_before, student, category) ==
    get_recommended_problem(student, category)

\* AICodingTutor._run_tests: one simulated result per test case, each passed
\* or not at random
run_tests(test_cases) == [1..test_cases -> BOOLEAN]

Passed(test_results) ==
    Cardinality({i \in DOMAIN test_results : test_results[i]})

\* The test of line 256 with >= for >
IsSuccess_at_least(passed, total) == 5 * passed >= 4 * total

\* success_rate > 0.8, the rate being passed / total
IsSuccess(passed, total) == 5 * passed > 4 * total

\* _generate_encouragement with the second test on the ledger's success
\* (rate above 0.8) and not on 0.7
generate_encouragement_on_success(passed, total, quality_score) ==
    IF 10 * passed > 9 * total /\ quality_score > 85
    THEN "Excellent work!"
    ELSE IF 5 * passed > 4 * total
    THEN "Good job!"
    ELSE "Don't give up!"

\* AICodingTutor._generate_encouragement; rates are compared as fractions
generate_encouragement(passed, total, quality_score) ==
    IF 10 * passed > 9 * total /\ quality_score > 85
    THEN "Excellent work!"
    ELSE IF 10 * passed > 7 * total
    THEN "Good job!"
    ELSE "Don't give up!"

\* The number of hints the problems `ids` hold in all
RECURSIVE TotalHints(_, _)
TotalHints(all_hints, ids) ==
    IF ids = {} THEN 0
    ELSE LET id == CHOOSE x \in ids : TRUE
         IN Len(all_hints[id]) + TotalHints(all_hints, ids \ {id})

\* The number of hints added since _initialize_problems
HintsAdded ==
    TotalHints(hints, DOMAIN hints)
    - TotalHints(InitializeHints, DOMAIN InitializeHints)

\* The history of a student after an attempt that left the ledger as `student`
Observe(seen, success, student) ==
    [run |-> IF success THEN seen.run + 1 ELSE 0,
     peak |-> Max(seen.peak, student.current_streak)]

\* The threads that call submit_solution at the same time
Threads == {"t1", "t2"}

\* A thread that has not called submit_solution
IdleThread ==
    [pc |-> "idle", student_id |-> None, problem_id |-> None,
     passed |-> 0, total |-> 0, score |-> 0, current_streak |-> 0]

Init ==
    /\ problems = InitializeProblems
    /\ hints = InitializeHints
    /\ students = [s \in {} |-> StudentProgress(s)]
    /\ session_history = <<>>
    /\ ret = NoReturn
    /\ attempts = 0
    /\ observed = [s \in {} |-> [run |-> 0, peak |-> 0]]
    /\ threads = [t \in Threads |-> IdleThread]

\* AICodingTutor.register_student
RegisterStudent(student_id) ==
    /\ students' = register_student(students, student_id)
    /\ ret' = [kind |-> "student", student_id |-> student_id]
    /\ observed' = [s \in DOMAIN students' |->
                      IF s \in DOMAIN observed THEN observed[s]
                      ELSE [run |-> 0, peak |-> 0]]
    /\ UNCHANGED <<threads, problems, hints, session_history, attempts>>

\* A caller holding the StudentProgress that register_student returned calls
\* its update_progress
UpdateProgress(student_id, problem, success, code_quality_score) ==
    /\ student_id \in DOMAIN students
    /\ attempts < MaxAttempts
    /\ attempts' = attempts + 1
    /\ students' = [students EXCEPT ![student_id] =
                      update_progress(@, problem, success, code_quality_score)]
    /\ observed' = [observed EXCEPT ![student_id] =
                      Observe(@, success, students'[student_id])]
    /\ ret' = [kind |-> "update_progress", student_id |-> student_id]
    /\ UNCHANGED <<threads, problems, hints, session_history>>

\* get_recommended_problem looking the student up with
\* self.students.setdefault(student_id, StudentProgress(student_id))
GetRecommendedProblem_setdefault(student_id, category) ==
    /\ students' = register_student(students, student_id)
    /\ observed' = [s \in DOMAIN students' |->
                      IF s \in DOMAIN observed THEN observed[s]
                      ELSE [run |-> 0, peak |-> 0]]
    /\ \E chosen \in (IF category = None THEN ProblemCategory
                       ELSE {category}) :
          \E p \in get_recommended_problem(students'[student_id], chosen) :
             ret' = IF p = IndexError THEN IndexError
                    ELSE [kind |-> "problem", student_id |-> student_id,
                          category |-> chosen, problem |-> p]
    /\ UNCHANGED <<threads, problems, hints, session_history, attempts>>

\* AICodingTutor.get_recommended_problem; category is None or a category
GetRecommendedProblem(student_id, category) ==
    /\ IF student_id \notin DOMAIN students
       THEN ret' = [kind |-> "KeyError", key |-> student_id]
       ELSE \E chosen \in (IF category = None THEN ProblemCategory
                           ELSE {category}) :
              \E p \in get_recommended_problem(students[student_id], chosen) :
                 ret' = IF p = IndexError THEN IndexError
                        ELSE [kind |-> "problem", student_id |-> student_id,
                              category |-> chosen, problem |-> p]
    /\ UNCHANGED <<threads, problems, hints, students, session_history, attempts,
                   observed>>

\* AICodingTutor.submit_solution; the division of line 255 raises
\* ZeroDivisionError for a problem without test cases, before any update.
\* A logged session is kept without its timestamp.
SubmitSolution(student_id, problem_id) ==
    IF student_id \notin DOMAIN students
    THEN /\ ret' = [kind |-> "KeyError", key |-> student_id]
         /\ UNCHANGED <<threads, problems, hints, students, session_history, attempts,
                        observed>>
    ELSE IF problem_id \notin CatalogIds
    THEN /\ ret' = [kind |-> "KeyError", key |-> problem_id]
         /\ UNCHANGED <<threads, problems, hints, students, session_history, attempts,
                        observed>>
    ELSE IF ProblemById(problem_id).test_cases = 0
    THEN /\ ret' = [kind |-> "ZeroDivisionError"]
         /\ UNCHANGED <<threads, problems, hints, students, session_history, attempts,
                        observed>>
    ELSE LET problem == ProblemById(problem_id) IN
         /\ attempts < MaxAttempts
         /\ Len(session_history) < MaxSessions
         /\ \E analysis \in analyze_code_quality,
               test_results \in run_tests(problem.test_cases) :
              LET passed == Passed(test_results)
                  total == Len(test_results)
                  success == IsSuccess(passed, total)
                  student == update_progress(students[student_id], problem,
                                             success, analysis.score)
              IN /\ students' = [students EXCEPT ![student_id] = student]
                 /\ observed' = [observed EXCEPT ![student_id] =
                                   Observe(@, success, student)]
                 /\ session_history' = Append(session_history,
                        [student_id |-> student_id, problem_id |-> problem_id,
                         success_rate |-> <<passed, total>>,
                         quality_score |-> analysis.score])
                 /\ \E next \in next_recommendation(students[student_id],
                                   student, problem.category) :
                       ret' = IF next = IndexError THEN IndexError
                              ELSE [kind |-> "result",
                                    success_rate |-> <<passed, total>>,
                                    score |-> analysis.score,
                                    next_recommendation |-> next,
                                    encouragement |-> generate_encouragement(
                                        passed, total, analysis.score)]
         /\ attempts' = attempts + 1
         /\ UNCHANGED <<threads, problems, hints>>

\* CodingProblem.add_hint on a problem of the catalog
AddHint(problem_id, hint, level) ==
    /\ problem_id \in DOMAIN hints
    /\ HintsAdded < MaxHints
    /\ hints' = [hints EXCEPT ![problem_id] = add_hint(@, hint, level)]
    /\ ret' = [kind |-> "add_hint", problem_id |-> problem_id]
    /\ UNCHANGED <<threads, problems, students, session_history, attempts, observed>>

\* CodingProblem.get_hint on a problem of the catalog
GetHint(problem_id, current_level) ==
    /\ problem_id \in DOMAIN hints
    /\ \E h \in get_hint(hints[problem_id], current_level) :
          ret' = [kind |-> "hint", problem_id |-> problem_id,
                  current_level |-> current_level,
                  chosen |-> h.chosen, hint |-> h.hint]
    /\ UNCHANGED <<threads, problems, hints, students, session_history, attempts,
                   observed>>

\* A caller builds a CodingProblem and puts it in tutor.problems under its
\* id; __init__ keeps test_cases as given, whatever its length
AddProblem(problem) ==
    /\ problem.problem_id \notin CatalogIds
    /\ problems' = Append(problems, problem)
    /\ hints' = [id \in DOMAIN hints \cup {problem.problem_id} |->
                   IF id \in DOMAIN hints THEN hints[id] ELSE <<>>]
    /\ ret' = [kind |-> "problem_added", problem_id |-> problem.problem_id]
    /\ UNCHANGED <<threads, students, session_history, attempts, observed>>

----------------------------------------------------------------------------
(* submit_solution called by threads at the same time: the code takes no lock,
   so the statements of the calls interleave. A step is one statement;
   self.current_streak += 1 is a read and a later write. *)

\* Lines 245-256, up to the call of update_progress: the lookups, the
\* analysis, the test run and the success rate, all local to the thread
BeginSubmit(t, student_id, problem_id) ==
    /\ threads[t].pc = "idle"
    /\ student_id \in DOMAIN students
    /\ problem_id \in CatalogIds
    /\ ProblemById(problem_id).test_cases > 0
    /\ \E analysis \in analyze_code_quality,
          test_results \in run_tests(ProblemById(problem_id).test_cases) :
         threads' = [threads EXCEPT ![t] =
            [pc |-> IF IsSuccess(Passed(test_results), Len(test_results))
                    THEN "add_completed" ELSE "reset_streak",
             student_id |-> student_id, problem_id |-> problem_id,
             passed |-> Passed(test_results), total |-> Len(test_results),
             score |-> analysis.score, current_streak |-> 0]]
    /\ UNCHANGED <<problems, hints, students, session_history, ret, attempts,
                   observed>>

\* Line 134: self.completed_problems.add(problem.problem_id)
AddCompleted(t) ==
    /\ threads[t].pc = "add_completed"
    /\ students' = [students EXCEPT ![threads[t].student_id].completed_problems =
                      @ \cup {threads[t].problem_id}]
    /\ threads' = [threads EXCEPT ![t].pc = "read_streak"]
    /\ UNCHANGED <<problems, hints, session_history, ret, attempts, observed>>

\* Line 135, the read of self.current_streak
ReadStreak(t) ==
    /\ threads[t].pc = "read_streak"
    /\ threads' = [threads EXCEPT
                     ![t].current_streak =
                         students[threads[t].student_id].current_streak,
                     ![t].pc = "write_streak"]
    /\ UNCHANGED <<problems, hints, students, session_history, ret, attempts,
                   observed>>

\* Line 135, the write of self.current_streak
WriteStreak(t) ==
    /\ threads[t].pc = "write_streak"
    /\ students' = [students EXCEPT ![threads[t].student_id].current_streak =
                      threads[t].current_streak + 1]
    /\ threads' = [threads EXCEPT ![t].pc = "longest_streak"]
    /\ UNCHANGED <<problems, hints, session_history, ret, attempts, observed>>

\* Line 136: self.longest_streak = max(...)
LongestStreak(t) ==
    /\ threads[t].pc = "longest_streak"
    /\ students' = [students EXCEPT ![threads[t].student_id].longest_streak =
                      Max(@, students[threads[t].student_id].current_streak)]
    /\ threads' = [threads EXCEPT ![t].pc = "promote"]
    /\ UNCHANGED <<problems, hints, session_history, ret, attempts, observed>>

\* Lines 139-140: the promotion
Promote(t) ==
    /\ threads[t].pc = "promote"
    /\ LET problem == ProblemById(threads[t].problem_id)
           self == students[threads[t].student_id]
       IN students' = [students EXCEPT ![threads[t].student_id] =
             IF /\ threads[t].score > 80
                /\ problem.difficulty = self.skill_levels[problem.category]
             THEN promote_skill_level(self, problem.category)
             ELSE self]
    /\ threads' = [threads EXCEPT ![t].pc = "log_session"]
    /\ UNCHANGED <<problems, hints, session_history, ret, attempts, observed>>

\* Line 142: self.current_streak = 0
ResetStreak(t) ==
    /\ threads[t].pc = "reset_streak"
    /\ students' = [students EXCEPT ![threads[t].student_id].current_streak = 0]
    /\ threads' = [threads EXCEPT ![t].pc = "log_session"]
    /\ UNCHANGED <<problems, hints, session_history, ret, attempts, observed>>

\* Line 259: self._log_session(...); update_progress has returned
LogSession(t) ==
    /\ threads[t].pc = "log_session"
    /\ session_history' = Append(session_history,
           [student_id |-> threads[t].student_id,
            problem_id |-> threads[t].problem_id,
            success_rate |-> <<threads[t].passed, threads[t].total>>,
            quality_score |-> threads[t].score])
    /\ attempts' = attempts + 1
    /\ observed' = [observed EXCEPT ![threads[t].student_id] =
                      Observe(@, IsSuccess(threads[t].passed, threads[t].total),
                              students[threads[t].student_id])]
    /\ threads' = [threads EXCEPT ![t].pc = "recommend"]
    /\ UNCHANGED <<problems, hints, students, ret>>

\* Lines 261-267: the recommendation and the result returned
Recommend(t) ==
    /\ threads[t].pc = "recommend"
    /\ \E next \in get_recommended_problem(students[threads[t].student_id],
                      ProblemById(threads[t].problem_id).category) :
          ret' = IF next = IndexError THEN IndexError
                 ELSE [kind |-> "result",
                       success_rate |-> <<threads[t].passed, threads[t].total>>,
                       score |-> threads[t].score,
                       next_recommendation |-> next,
                       encouragement |-> generate_encouragement(
                           threads[t].passed, threads[t].total, threads[t].score)]
    /\ threads' = [threads EXCEPT ![t].pc = "done"]
    /\ UNCHANGED <<problems, hints, students, session_history, attempts,
                   observed>>

\* The ledger driven through StudentProgress itself
Next ==
    \/ \E s \in StudentIds : RegisterStudent(s)
    \/ \E s \in StudentIds, p \in ProblemPool, ok \in BOOLEAN, q \in Scores :
          UpdateProgress(s, p, ok, q)
    \/ \E s \in StudentIds, c \in ProblemCategory \cup {None} :
          GetRecommendedProblem(s, c)

Spec == Init /\ [][Next]_vars

\* The same tutor after MoreProblems were registered in tutor.problems
InitMore ==
    /\ problems = InitializeProblems \o MoreProblems
    /\ hints = [id \in {p.problem_id : p \in Range(InitializeProblems \o MoreProblems)} |->
                 IF id \in DOMAIN InitializeHints THEN InitializeHints[id]
                 ELSE <<>>]
    /\ students = [s \in {} |-> StudentProgress(s)]
    /\ session_history = <<>>
    /\ ret = NoReturn
    /\ attempts = 0
    /\ observed = [s \in {} |-> [run |-> 0, peak |-> 0]]
    /\ threads = [t \in Threads |-> IdleThread]

SpecMore == InitMore /\ [][Next]_vars

\* The tutor driven through the methods of AICodingTutor alone
NextTutor ==
    \/ \E s \in StudentIds : RegisterStudent(s)
    \/ \E s \in StudentIds, c \in ProblemCategory \cup {None} :
          GetRecommendedProblem(s, c)
    \/ \E s \in StudentIds, id \in ProblemIds : SubmitSolution(s, id)

SpecTutor == Init /\ [][NextTutor]_vars

\* The tutor after SubmitProblems were registered in tutor.problems
InitSubmit ==
    /\ problems = InitializeProblems \o SubmitProblems
    /\ hints = [id \in {p.problem_id : p \in Range(InitializeProblems \o SubmitProblems)} |->
                 IF id \in DOMAIN InitializeHints THEN InitializeHints[id]
                 ELSE <<>>]
    /\ students = [s \in {} |-> StudentProgress(s)]
    /\ session_history = <<>>
    /\ ret = NoReturn
    /\ attempts = 0
    /\ observed = [s \in {} |-> [run |-> 0, peak |-> 0]]
    /\ threads = [t \in Threads |-> IdleThread]

\* Students register and submit solutions to the problems of that catalog
\* and to one that is not in it
NextSubmit ==
    \/ \E s \in StudentIds : RegisterStudent(s)
    \/ \E s \in StudentIds,
          id \in {p.problem_id : p \in Range(InitializeProblems \o SubmitProblems)}
                 \cup {"alg_003"} :
          SubmitSolution(s, id)

SpecSubmit == InitSubmit /\ [][NextSubmit]_vars

\* The tutor after ten_tests_problem was registered in tutor.problems
InitEncouragement ==
    /\ problems = Append(InitializeProblems, ten_tests_problem)
    /\ hints = [id \in DOMAIN InitializeHints \cup {ten_tests_problem.problem_id} |->
                 IF id \in DOMAIN InitializeHints THEN InitializeHints[id]
                 ELSE <<>>]
    /\ students = [s \in {} |-> StudentProgress(s)]
    /\ session_history = <<>>
    /\ ret = NoReturn
    /\ attempts = 0
    /\ observed = [s \in {} |-> [run |-> 0, peak |-> 0]]
    /\ threads = [t \in Threads |-> IdleThread]

\* One student registers and submits solutions to a problem with four test
\* cases and to the one with ten
NextEncouragement ==
    \/ RegisterStudent("s1")
    \/ \E id \in {palindrome_problem.problem_id, ten_tests_problem.problem_id} :
          SubmitSolution("s1", id)

SpecEncouragement == InitEncouragement /\ [][NextEncouragement]_vars

\* The catalog grows by SubmitProblems while students register and submit
NextCatalog ==
    \/ \E p \in Range(SubmitProblems) : AddProblem(p)
    \/ \E s \in StudentIds : RegisterStudent(s)
    \/ \E s \in StudentIds,
          id \in {p.problem_id : p \in Range(InitializeProblems \o SubmitProblems)} :
          SubmitSolution(s, id)

SpecCatalog == Init /\ [][NextCatalog]_vars

\* The tutor after register_student("s1")
InitThreads ==
    /\ problems = InitializeProblems
    /\ hints = InitializeHints
    /\ students = register_student([s \in {} |-> StudentProgress(s)], "s1")
    /\ session_history = <<>>
    /\ ret = [kind |-> "student", student_id |-> "s1"]
    /\ attempts = 0
    /\ observed = [s \in {"s1"} |-> [run |-> 0, peak |-> 0]]
    /\ threads = [t \in Threads |-> IdleThread]

\* Every thread calls submit_solution once, the calls running at the same
\* time
NextThreads ==
    \/ \E t \in Threads, s \in StudentIds, id \in ProblemIds :
          BeginSubmit(t, s, id)
    \/ \E t \in Threads : AddCompleted(t)
    \/ \E t \in Threads : ReadStreak(t)
    \/ \E t \in Threads : WriteStreak(t)
    \/ \E t \in Threads : LongestStreak(t)
    \/ \E t \in Threads : Promote(t)
    \/ \E t \in Threads : ResetStreak(t)
    \/ \E t \in Threads : LogSession(t)
    \/ \E t \in Threads : Recommend(t)

SpecThreads == InitThreads /\ [][NextThreads]_vars

\* The hints of the catalog's problems: hints are added and asked for
NextHints ==
    \/ \E id \in ProblemIds, h \in HintTexts, l \in HintLevels :
          AddHint(id, h, l)
    \/ \E id \in ProblemIds, l \in StruggleLevels : GetHint(id, l)

SpecHints == Init /\ [][NextHints]_vars

----------------------------------------------------------------------------
(* The properties *)

Rank(level) ==
    CASE level = BEGINNER -> 0 [] level = INTERMEDIATE -> 1 [] level = ADVANCED -> 2

\* One step up the ladder, ADVANCED being the top
NextLevel(level) ==
    IF level = BEGINNER THEN INTERMEDIATE ELSE ADVANCED

Registered == DOMAIN students

\* C1: in every reachable state every student's ledger has
\* longest_streak >= current_streak >= 0.
StreakInvariant ==
    \A s \in Registered :
       /\ students[s].longest_streak >= students[s].current_streak
       /\ students[s].current_streak >= 0

\* A streak of two that a failed attempt then reset
StreakInvariantWitness ==
    \E s \in Registered :
       /\ students[s].longest_streak = 2
       /\ students[s].current_streak = 0

\* C2: a skill level is always one of the three levels, and from one state to
\* the next it stays or moves exactly one step up: it never decreases, never
\* skips a level, and stays ADVANCED once ADVANCED.
PromotionMonotone ==
    /\ [](\A s \in Registered, c \in ProblemCategory :
            students[s].skill_levels[c] \in DifficultyLevel)
    /\ [][\A s \in Registered :
            /\ s \in DOMAIN students'
            /\ \A c \in ProblemCategory :
                 LET before == students[s].skill_levels[c]
                     after == students'[s].skill_levels[c]
                 IN /\ after \in DifficultyLevel
                    /\ \/ Rank(after) = Rank(before)
                       \/ Rank(after) = Rank(before) + 1]_vars

\* Three successes in a row: up to INTERMEDIATE, up to ADVANCED, and an
\* ADVANCED problem solved at ADVANCED
PromotionMonotoneWitness ==
    \E s \in Registered :
       /\ students[s].skill_levels[ALGORITHMS] = ADVANCED
       /\ students[s].completed_problems = {"fib_001", "alg_002", "alg_003"}
       /\ students[s].current_streak = 3

\* C3: an update_progress call moves the skill level of the problem's category
\* one step up if success holds, the score is above 80 and the problem's
\* difficulty is the level the student had in that category before the call;
\* in every other case it changes no skill level.
PromotionIff ==
    \A s \in Registered, p \in ProblemPool, ok \in BOOLEAN, q \in Scores :
       LET before == students[s].skill_levels
           after == update_progress(students[s], p, ok, q).skill_levels
       IN IF ok /\ q > 80 /\ p.difficulty = before[p.category]
          THEN after = [before EXCEPT ![p.category] = NextLevel(@)]
          ELSE after = before

\* One attempt was made, and it promoted
PromotionIffWitness ==
    /\ attempts = 1
    /\ \E s \in Registered :
          /\ students[s].skill_levels[ALGORITHMS] = INTERMEDIATE
          /\ students[s].completed_problems = {"fib_001"}

\* C4: a failed attempt sets the student's current_streak to 0 and changes
\* nothing else of the ledger (skill levels, longest_streak,
\* completed_problems), whatever the score and the problem's category.
FailureResetsStreakOnly ==
    \A s \in Registered, p \in ProblemPool, q \in Scores :
       update_progress(students[s], p, FALSE, q) =
          [students[s] EXCEPT !.current_streak = 0]

\* A streak earned in two categories, then a failed attempt
FailureResetsStreakOnlyWitness ==
    \E s \in Registered :
       /\ students[s].current_streak = 0
       /\ students[s].longest_streak = 2
       /\ students[s].completed_problems = {"fib_001", "ds_001"}
       /\ students[s].skill_levels[ALGORITHMS] = INTERMEDIATE

\* C5: a successful attempt adds the problem's id to completed_problems,
\* adds 1 to current_streak and sets longest_streak to the larger of its old
\* value and the new current_streak; so current_streak is always the number
\* of successful attempts in a row since the last failed one, and
\* longest_streak the largest current_streak there has been.
SuccessExtendsStreak ==
    \A s \in Registered :
       /\ students[s].current_streak = observed[s].run
       /\ students[s].longest_streak = observed[s].peak
       /\ \A p \in ProblemPool, q \in Scores :
             LET before == students[s]
                 after == update_progress(students[s], p, TRUE, q)
             IN /\ after.completed_problems =
                      before.completed_problems \cup {p.problem_id}
                /\ after.current_streak = before.current_streak + 1
                /\ after.longest_streak =
                      Max(before.longest_streak, after.current_streak)

\* A failed attempt, then two successes in two categories
SuccessExtendsStreakWitness ==
    /\ attempts = 3
    /\ \E s \in Registered :
          /\ students[s].current_streak = 2
          /\ students[s].longest_streak = 2
          /\ students[s].completed_problems = {"fib_001", "ds_001"}

\* C6: an attempt of student s on a problem of category c changes no skill
\* level of s but that of c, and nothing of any other student; a new student
\* who solves a beginner algorithms problem with score 90 then has algorithms
\* at intermediate, every other category at beginner and current_streak 1.
AttemptFrame ==
    /\ [](\A s \in Registered, p \in ProblemPool, ok \in BOOLEAN, q \in Scores :
            LET after == update_progress(students[s], p, ok, q) IN
            /\ \A c \in ProblemCategory \ {p.category} :
                  after.skill_levels[c] = students[s].skill_levels[c]
            /\ ( /\ students[s] = StudentProgress(s)
                 /\ p.category = ALGORITHMS /\ p.difficulty = BEGINNER
                 /\ ok /\ q = 90 )
               => /\ after.skill_levels =
                       [c \in ProblemCategory |->
                          IF c = ALGORITHMS THEN INTERMEDIATE ELSE BEGINNER]
                  /\ after.current_streak = 1)
    /\ [][ret'.kind = "update_progress" =>
            /\ DOMAIN students' = DOMAIN students
            /\ \A t \in Registered \ {ret'.student_id} :
                  students'[t] = students[t]]_vars

\* s2 has made progress of its own, and s1 is as the scenario says
AttemptFrameWitness ==
    /\ Registered = {"s1", "s2"}
    /\ ret = [kind |-> "update_progress", student_id |-> "s1"]
    /\ students["s2"].completed_problems = {"ds_001"}
    /\ students["s2"].skill_levels[DATA_STRUCTURES] = INTERMEDIATE
    /\ students["s1"].completed_problems = {"fib_001"}
    /\ students["s1"].skill_levels =
          [c \in ProblemCategory |->
             IF c = ALGORITHMS THEN INTERMEDIATE ELSE BEGINNER]
    /\ students["s1"].current_streak = 1

\* C7: from one state to the next a registered student stays registered and
\* loses no id of completed_problems, whatever the operation (registering
\* again and failed attempts included); solving a completed problem again
\* leaves the set as it was.
CompletedOnlyGrows ==
    /\ [](\A s \in Registered, p \in ProblemPool, q \in Scores :
            p.problem_id \in students[s].completed_problems =>
               update_progress(students[s], p, TRUE, q).completed_problems
                  = students[s].completed_problems)
    /\ [][\A s \in Registered :
            /\ s \in DOMAIN students'
            /\ students[s].completed_problems
                  \subseteq students'[s].completed_problems]_vars

\* A student who solved a problem, failed, and has just registered again
CompletedOnlyGrowsWitness ==
    /\ ret.kind = "student"
    /\ ret.student_id \in Registered
    /\ students[ret.student_id].completed_problems # {}
    /\ students[ret.student_id].current_streak = 0
    /\ students[ret.student_id].longest_streak = 1

\* The candidates of the two steps, stated on the catalog as a set
ExactCandidates(student, category) ==
    {p \in Range(problems) :
        /\ p.category = category
        /\ p.difficulty = student.skill_levels[category]
        /\ p.problem_id \notin student.completed_problems}

AtTargetNotCompleted(student, category) ==
    {p \in Range(problems) :
        /\ p.difficulty = student.skill_levels[category]
        /\ p.problem_id \notin student.completed_problems}

\* C8: for a registered student (the catalog is not empty),
\* get_recommended_problem raises nothing and returns a problem of the
\* catalog, whatever the category and the ledger.
RecommendationNeverFails ==
    /\ ret.kind # "IndexError"
    /\ ret.kind = "problem" => ret.problem \in Range(problems)
    /\ \A s \in Registered, c \in ProblemCategory :
          /\ get_recommended_problem(students[s], c) # {}
          /\ get_recommended_problem(students[s], c) \subseteq Range(problems)

\* A recommendation for a student who has completed the whole catalog, in a
\* category whose level no problem of the catalog has
RecommendationNeverFailsWitness ==
    /\ ret.kind = "problem"
    /\ CatalogIds \subseteq students[ret.student_id].completed_problems
    /\ students[ret.student_id].skill_levels[ret.category] = INTERMEDIATE

\* C9: when the catalog holds a problem of the target difficulty that the
\* student has not completed, the problem returned is not one the student
\* has completed.
RecommendationExcludesCompleted ==
    ret.kind = "problem" =>
       LET student == students[ret.student_id] IN
       AtTargetNotCompleted(student, ret.category) # {}
       => ret.problem.problem_id \notin student.completed_problems

\* The student has completed a catalog problem of the target difficulty, and
\* is given another
RecommendationExcludesCompletedWitness ==
    /\ ret.kind = "problem"
    /\ LET student == students[ret.student_id] IN
       /\ \E p \in Range(problems) :
             /\ p.difficulty = student.skill_levels[ret.category]
             /\ p.problem_id \in student.completed_problems
       /\ ret.problem.problem_id \notin student.completed_problems

\* C10: when no problem the student has not completed matches the category
\* and the target difficulty, and some such problem matches the target
\* difficulty, the call raises nothing and returns a problem of the catalog
\* of the target difficulty that the student has not completed.
RelaxedFallback ==
    /\ \A s \in Registered, c \in ProblemCategory :
          ( /\ ExactCandidates(students[s], c) = {}
            /\ AtTargetNotCompleted(students[s], c) # {} )
          => IndexError \notin get_recommended_problem(students[s], c)
    /\ ret.kind = "problem" =>
          LET student == students[ret.student_id] IN
          ( /\ ExactCandidates(student, ret.category) = {}
            /\ AtTargetNotCompleted(student, ret.category) # {} )
          => ret.problem \in AtTargetNotCompleted(student, ret.category)

\* A recommendation in a category without candidates, taken from another
\* category, for a student who has completed a problem of that difficulty
RelaxedFallbackWitness ==
    /\ ret.kind = "problem"
    /\ LET student == students[ret.student_id] IN
       /\ ExactCandidates(student, ret.category) = {}
       /\ ret.problem.category # ret.category
       /\ ret.problem.difficulty = student.skill_levels[ret.category]
       /\ ret.problem.problem_id \notin student.completed_problems
       /\ student.completed_problems # {}

----------------------------------------------------------------------------
(* The hints *)

\* C11: a get_hint call never returns a hint whose level is above the
\* struggle level; it returns None exactly when the problem has no hint with
\* level <= struggle level, and otherwise the text of one of those hints.
HintWithinStruggleLevel ==
    ret.kind = "hint" =>
       LET self_hints == hints[ret.problem_id]
           Eligible == {i \in 1..Len(self_hints) :
                           self_hints[i].level <= ret.current_level}
       IN /\ (ret.hint = None) <=> (Eligible = {})
          /\ ret.hint # None =>
                /\ ret.chosen \in Eligible
                /\ ~(self_hints[ret.chosen].level > ret.current_level)
                /\ self_hints[ret.chosen].hint = ret.hint

\* A hint of level 1 returned at struggle level 2 while the problem also holds
\* a hint of level 3, and the same problem asked at level 0 gives None
HintWithinStruggleLevelWitness ==
    /\ ret.kind = "hint"
    /\ ret.current_level = 2
    /\ ret.hint # None
    /\ hints[ret.problem_id][ret.chosen].level = 1
    /\ \E i \in 1..Len(hints[ret.problem_id]) :
          hints[ret.problem_id][i].level = 3
    /\ get_hint(hints[ret.problem_id], 0) = {[chosen |-> 0, hint |-> None]}

----------------------------------------------------------------------------
(* Registration *)

\* C12: register_student is idempotent: for an id already registered it
\* returns the existing ledger and changes no ledger; only a first
\* registration creates a ledger, every category at BEGINNER, both streaks 0
\* and no completed problem, the other ledgers kept. No step deletes a ledger.
RegistrationIdempotent ==
    [][/\ DOMAIN students \subseteq DOMAIN students'
       /\ ret'.kind = "student" =>
             LET s == ret'.student_id IN
             IF s \in DOMAIN students
             THEN students' = students
             ELSE /\ DOMAIN students' = DOMAIN students \cup {s}
                  /\ \A t \in DOMAIN students : students'[t] = students[t]
                  /\ students'[s].student_id = s
                  /\ \A c \in ProblemCategory :
                        students'[s].skill_levels[c] = BEGINNER
                  /\ students'[s].current_streak = 0
                  /\ students'[s].longest_streak = 0
                  /\ students'[s].completed_problems = {}]_vars

\* A student with a streak of two and a promotion has just been registered
\* again, next to a second student
RegistrationIdempotentWitness ==
    /\ ret.kind = "student"
    /\ Cardinality(DOMAIN students) = 2
    /\ students[ret.student_id].current_streak = 2
    /\ students[ret.student_id].skill_levels[ALGORITHMS] = INTERMEDIATE
    /\ students[ret.student_id].completed_problems # {}

----------------------------------------------------------------------------
(* Submissions *)

\* The session the last submit_solution logged
LastSession == session_history[Len(session_history)]

\* C13: a submission with k of n test results passed is a success for the
\* ledger if and only if 5 * k > 4 * n: then the streak grows by one and the
\* problem is completed, otherwise the streak is reset and nothing is
\* completed. Exactly 80% passed is a failure, and with four test cases only
\* four passed is a success.
SuccessAboveFourFifths ==
    [][ret'.kind = "result" =>
          LET e == session_history'[Len(session_history')]
              k == e.success_rate[1]
              n == e.success_rate[2]
              before == students[e.student_id]
              after == students'[e.student_id]
              Succeeded == /\ after.current_streak = before.current_streak + 1
                           /\ e.problem_id \in after.completed_problems
              Failed == /\ after.current_streak = 0
                        /\ after.completed_problems = before.completed_problems
                        /\ after.skill_levels = before.skill_levels
          IN /\ IF 5 * k > 4 * n THEN Succeeded ELSE Failed
             /\ 5 * k = 4 * n => Failed
             /\ n = 4 => (Succeeded <=> k = 4)]_vars

\* Four of five test cases passed: exactly 80%, and the streak is 0
SuccessAboveFourFifthsWitness ==
    /\ ret.kind = "result"
    /\ LastSession.success_rate = <<4, 5>>
    /\ students[LastSession.student_id].current_streak = 0
    /\ LastSession.problem_id \notin
          students[LastSession.student_id].completed_problems

\* C14: the encouragement of a submission is decided by its success rate
\* k / n and its score alone, the first match winning: the excellent message
\* iff the rate is above 0.9 and the score above 85; otherwise the good
\* message iff the rate is above 0.7; otherwise the retry message. Whatever
\* the ledger, a submission with a rate above 0.7 and at most 0.8, a failure
\* for the ledger, gets the good message.
EncouragementThresholds ==
    ret.kind = "result" =>
       LET k == ret.success_rate[1]
           n == ret.success_rate[2]
           Excellent == 10 * k > 9 * n /\ ret.score > 85
           Good == ~Excellent /\ 10 * k > 7 * n
       IN /\ ret.encouragement = "Excellent work!" <=> Excellent
          /\ ret.encouragement = "Good job!" <=> Good
          /\ ret.encouragement = "Don't give up!" <=> (~Excellent /\ ~Good)
          /\ (10 * k > 7 * n /\ 5 * k <= 4 * n) =>
                /\ ret.encouragement = "Good job!"
                /\ students[LastSession.student_id].current_streak = 0

\* Eight of ten test cases passed with a score of 86: a rate of exactly 0.8,
\* the good message, and the ledger took a failure
EncouragementThresholdsWitness ==
    /\ ret.kind = "result"
    /\ ret.success_rate = <<8, 10>>
    /\ ret.score = 86
    /\ ret.encouragement = "Good job!"
    /\ students[LastSession.student_id].current_streak = 0
    /\ students[LastSession.student_id].completed_problems = {}

----------------------------------------------------------------------------
(* Unknown ids *)

\* C15: get_recommended_problem and submit_solution return a result only for
\* a registered student, and submit_solution only for a problem of the
\* catalog; every other call raises KeyError for the id that was not found
\* and leaves the ledgers, the registered students, the catalog and the
\* session history as they were. Only register_student adds a student.
NotFoundLeavesState ==
    /\ [](/\ ret.kind \in {"none", "student", "problem", "result", "KeyError"}
          /\ ret.kind = "problem" => ret.student_id \in DOMAIN students
          /\ ret.kind = "result" =>
                /\ LastSession.student_id \in DOMAIN students
                /\ LastSession.problem_id \in CatalogIds
          /\ ret.kind = "KeyError" =>
                \/ ret.key \in StudentIds \ DOMAIN students
                \/ ret.key \in ProblemIds \ CatalogIds)
    /\ [][/\ ret'.kind = "KeyError" =>
                UNCHANGED <<threads, students, problems, hints, session_history>>
          /\ DOMAIN students' # DOMAIN students => ret'.kind = "student"]_vars

\* A registered student with a logged success submits to a problem that is
\* not in the catalog, while the other student is not registered
NotFoundLeavesStateWitness ==
    /\ ret.kind = "KeyError"
    /\ ret.key = "alg_003"
    /\ Cardinality(DOMAIN students) = 1
    /\ session_history # <<>>
    /\ \E s \in DOMAIN students : students[s].current_streak = 1

----------------------------------------------------------------------------
(* Problems without test cases *)

\* C16: a problem with zero test cases is rejected when it is registered in
\* the catalog, so the catalog never holds one and no submission ends in the
\* error of dividing by an empty test run.
NoEmptyTestRun ==
    /\ \A p \in Range(problems) : p.test_cases > 0
    /\ ret.kind # "ZeroDivisionError"

----------------------------------------------------------------------------
(* Submissions at the same time *)

\* The ledger after the submission of thread t, made as one call
AfterSubmission(self, t) ==
    update_progress(self, ProblemById(threads[t].problem_id),
                    IsSuccess(threads[t].passed, threads[t].total),
                    threads[t].score)

\* C17: when two submissions for the same student run at the same time and
\* both have returned, the student's ledger is the one that the two
\* submissions give when made one after the other, in one of the two orders:
\* no update is lost (two successes from streak 0 end with a streak of 2).
SubmissionsSerialized ==
    (/\ threads["t1"].pc = "done"
     /\ threads["t2"].pc = "done"
     /\ threads["t1"].student_id = threads["t2"].student_id) =>
       LET s == threads["t1"].student_id IN
       \/ students[s] = AfterSubmission(
                            AfterSubmission(StudentProgress(s), "t1"), "t2")
       \/ students[s] = AfterSubmission(
                            AfterSubmission(StudentProgress(s), "t2"), "t1")

----------------------------------------------------------------------------
(* The order of the fallback steps *)

\* C18: whenever the catalog holds a problem of the requested category and of
\* the student's level in that category that the student has not completed,
\* the problem returned has that category and that difficulty and is not
\* completed: the category is given up only when there is no such problem.
ExactMatchFirst ==
    ret.kind = "problem" =>
       LET student == students[ret.student_id] IN
       ExactCandidates(student, ret.category) # {} =>
          /\ ret.problem \in Range(problems)
          /\ ret.problem.category = ret.category
          /\ ret.problem.difficulty = student.skill_levels[ret.category]
          /\ ret.problem.problem_id \notin student.completed_problems

\* A data-structures problem returned for that category to a promoted student
\* while problems of other categories at the same difficulty are open too
ExactMatchFirstWitness ==
    /\ ret.kind = "problem"
    /\ ret.category = DATA_STRUCTURES
    /\ ret.problem.category = DATA_STRUCTURES
    /\ LET student == students[ret.student_id] IN
       /\ \E p \in AtTargetNotCompleted(student, ret.category) :
             p.category # ret.category
       /\ student.skill_levels[ALGORITHMS] = INTERMEDIATE
       /\ student.completed_problems # {}

\* C19: when the catalog holds no problem of the target difficulty that the
\* student has not completed, in any category, get_recommended_problem has
\* one possible result whatever the random source: the first problem put in
\* the catalog (fib_001), be it completed, of another category or of another
\* difficulty.
LastResortIsFirstProblem ==
    /\ problems[1] = fib_problem
    /\ \A s \in Registered, c \in ProblemCategory :
          AtTargetNotCompleted(students[s], c) = {} =>
             get_recommended_problem(students[s], c) = {problems[1]}
    /\ ret.kind = "problem" =>
          (AtTargetNotCompleted(students[ret.student_id], ret.category) = {}
           => ret.problem = problems[1])

\* fib_001 returned for data structures to a student who has completed it and
\* is INTERMEDIATE in data structures: completed, of another category and of
\* another difficulty
LastResortIsFirstProblemWitness ==
    /\ ret.kind = "problem"
    /\ ret.category = DATA_STRUCTURES
    /\ ret.problem = fib_problem
    /\ LET student == students[ret.student_id] IN
       /\ student.skill_levels[DATA_STRUCTURES] = INTERMEDIATE
       /\ "fib_001" \in student.completed_problems
       /\ AtTargetNotCompleted(student, ret.category) = {}

----------------------------------------------------------------------------
(* The recommendation of a submission *)

\* C20: the next_recommendation of a submission is made after the ledger
\* update, for the category of the problem attempted and the ledger as the
\* update left it: it comes from the first non-empty candidate set of that
\* ledger (category and level, then level alone), else it is the first
\* problem of the catalog. So after a success the problem just solved is
\* returned only as that last resort, never as a candidate.
RecommendationAfterUpdate ==
    ret.kind = "result" =>
       LET student == students[LastSession.student_id]
           problem == ProblemById(LastSession.problem_id)
           next == ret.next_recommendation
           success == 5 * LastSession.success_rate[1]
                         > 4 * LastSession.success_rate[2]
       IN /\ IF ExactCandidates(student, problem.category) # {}
             THEN next \in ExactCandidates(student, problem.category)
             ELSE IF AtTargetNotCompleted(student, problem.category) # {}
             THEN next \in AtTargetNotCompleted(student, problem.category)
             ELSE next = problems[1]
          /\ success => problem.problem_id \in student.completed_problems
          /\ (success /\ next = problem) =>
                /\ AtTargetNotCompleted(student, problem.category) = {}
                /\ problem = problems[1]

\* fib_001 solved with a promotion and returned again as the last resort
RecommendationAfterUpdateWitness ==
    /\ ret.kind = "result"
    /\ LastSession.problem_id = "fib_001"
    /\ ret.next_recommendation = fib_problem
    /\ LET student == students[LastSession.student_id] IN
       /\ "fib_001" \in student.completed_problems
       /\ student.skill_levels[ALGORITHMS] = INTERMEDIATE
       /\ student.current_streak = 1

====
